---- MODULE Spec2Model ----
(***************************************************************************)
(* Model of server.py: the schedule store and config store (sqlite), the   *)
(* APScheduler job registry, the Flask request handlers that mutate both,  *)
(* and execute_schedule with its relay and strip calls to the ESP32.       *)
(*                                                                         *)
(* Python strings are sequences of one-character strings, so that split,   *)
(* lstrip, slicing and int() are modelled by what they do.  The name       *)
(* column of a schedule is only ever logged and is left out of the rows.   *)
(***************************************************************************)
EXTENDS Integers, Sequences, FiniteSets, Bags, TLC

VARIABLES
    schedules,  \* table schedules: id -> row, or NoRow when no row has the id
    seq,        \* sqlite_sequence of schedules: the largest id ever assigned
    config,     \* table config: the set of keys present, as key -> value
    main,       \* position of the __main__ block
    state,      \* scheduler.state: "stopped" or "running"
    pending,    \* scheduler._pending_jobs: jobs added while stopped, in order
    jobs,       \* the job store of the running scheduler: a bag of jobs
    req,        \* request thread -> [pc, sid, schedule] of the handler it runs
    wrk,        \* executor worker -> [pc, sid, row, base_url, calls]
    relay,      \* the ESP32's relay: "ON" or "OFF"
    was,        \* history, kept by Spec alone: id -> the trigger of the job
                \* that the last update disabling the schedule removed
    resp        \* history, kept with was: request thread -> the request
                \* it serves or served last, [op, sid, data, again, done, raised]

vars == <<schedules, seq, config, main, state, pending, jobs, req, wrk, relay, was, resp>>

\* ------------------------------------------------------------- bounds

\* Cap on the AUTOINCREMENT counter: create is refused once MaxId ids exist.
MaxId == 2

Ids == 1..MaxId

\* ------------------------------------------------------ Python values

\* None where a string is expected (get_config).
None == <<"None">>

\* None where a row is expected (fetchone() on no row).
NoRow == [none |-> TRUE]

\* `not v` for a string or None.
Falsy(v) == v = None \/ v = <<>>

\* The outcome of an expression that may raise: a value, or the exception.
Ok(v) == [raised |-> "", v |-> v]

Raise(e) == [raised |-> e]

IsRaised(r) == r.raised # ""

DecDigits == <<"0", "1", "2", "3", "4", "5", "6", "7", "8", "9">>

HexDigits ==
    <<"0", "1", "2", "3", "4", "5", "6", "7", "8", "9", "a", "b", "c", "d", "e", "f">>

Range(s) == {s[i] : i \in 1..Len(s)}

DigitVal(digits, c) == (CHOOSE i \in 1..Len(digits) : digits[i] = c) - 1

RECURSIVE DigitsVal(_, _, _)
\* The value of the digit string s in base Len(digits), most significant first.
DigitsVal(digits, s, acc) ==
    IF s = <<>> THEN acc
    ELSE DigitsVal(digits, Tail(s), acc * Len(digits) + DigitVal(digits, Head(s)))

\* int(s, base) on an unsigned or signed digit string; anything else raises.
PyIntBase(digits, s) ==
    LET signed == s # <<>> /\ Head(s) \in {"-", "+"}
        body == IF signed THEN Tail(s) ELSE s
    IN  IF body = <<>> \/ ~(Range(body) \subseteq Range(digits))
        THEN Raise("ValueError")
        ELSE IF signed /\ Head(s) = "-" THEN Ok(0 - DigitsVal(digits, body, 0))
        ELSE Ok(DigitsVal(digits, body, 0))

PyInt(s) == PyIntBase(DecDigits, s)

UpperHex == <<"A", "B", "C", "D", "E", "F">>

\* int(s, 16) takes the letters in either case.
Lower(c) ==
    IF c \in Range(UpperHex)
    THEN HexDigits[10 + CHOOSE i \in 1..Len(UpperHex) : UpperHex[i] = c]
    ELSE c

\* int(s), the base forgotten.
PyHexBaseTen(s) == PyIntBase(DecDigits, s)

\* int(s, 16)
PyHex(s) == PyIntBase(HexDigits, [i \in 1..Len(s) |-> Lower(s[i])])

RECURSIVE Split(_, _, _)
\* s.split(sep): cur is the part being read.  Always at least one part.
Split(s, sep, cur) ==
    IF s = <<>> THEN <<cur>>
    ELSE IF Head(s) = sep THEN <<cur>> \o Split(Tail(s), sep, <<>>)
    ELSE Split(Tail(s), sep, Append(cur, Head(s)))

RECURSIVE LStrip(_, _)
\* s.lstrip(c): every leading c is removed.
LStrip(s, c) == IF s # <<>> /\ Head(s) = c THEN LStrip(Tail(s), c) ELSE s

\* s[a:b] for 0 <= a <= b (Python clamps the slice to the string).
Slice(s, a, b) ==
    LET hi == IF b < Len(s) THEN b ELSE Len(s)
    IN  IF a >= hi THEN <<>> ELSE SubSeq(s, a + 1, hi)

\* data.get(k, default) on a JSON object.
Get(data, k, default) == IF k \in DOMAIN data THEN data[k] ELSE default

\* ------------------------------------------------------------ trigger

\* A list of day names in the order of cron's numbers, 0 = Sunday.
DAY_NAMES_FROM_SUNDAY == <<"sun", "mon", "tue", "wed", "thu", "fri", "sat">>

DAY_NAMES == <<"mon", "tue", "wed", "thu", "fri", "sat", "sun">>

\* DAY_NAMES[d] for a Python int d: a negative index counts from the end.
DayName(d) ==
    IF d >= 0 /\ d < Len(DAY_NAMES) THEN Ok(DAY_NAMES[d + 1])
    ELSE IF d < 0 /\ d >= 0 - Len(DAY_NAMES) THEN Ok(DAY_NAMES[d + Len(DAY_NAMES) + 1])
    ELSE Raise("IndexError")

\* CronTrigger(day_of_week=names, hour=h, minute=m): the fields are range
\* checked; the day names form a set of weekdays.
CronTrigger(names, h, m) ==
    IF h < 0 \/ h > 23 \/ m < 0 \/ m > 59 THEN Raise("ValueError")
    ELSE Ok([day_of_week |-> Range(names), hour |-> h, minute |-> m])

\* Lines 139-142 of schedule_job: the trigger of a schedule dict, or the
\* exception the derivation raises.
DeriveTrigger(schedule) ==
    LET hm == Split(schedule.time, ":", <<>>)
        ds == Split(schedule.days, ",", <<>>)
        day_nums == [i \in 1..Len(ds) |-> PyInt(ds[i])]
        day_names == [i \in 1..Len(ds) |->
                         IF IsRaised(day_nums[i]) THEN day_nums[i]
                         ELSE DayName(day_nums[i].v)]
    IN  IF Len(hm) # 2 THEN Raise("ValueError")
        ELSE IF \E i \in 1..Len(ds) : IsRaised(day_nums[i]) THEN Raise("ValueError")
        ELSE IF \E i \in 1..Len(ds) : IsRaised(day_names[i]) THEN Raise("IndexError")
        ELSE IF IsRaised(PyInt(hm[1])) \/ IsRaised(PyInt(hm[2])) THEN Raise("ValueError")
        ELSE CronTrigger([i \in 1..Len(ds) |-> day_names[i].v], PyInt(hm[1]).v, PyInt(hm[2]).v)

\* ---------------------------------------------------------- scheduler

\* job_id = f"schedule_{schedule['id']}"
JobId(sid) == <<"schedule_", sid>>

\* A job: its id, its trigger and the args handed to execute_schedule.
Job(sid, trigger) == [id |-> JobId(sid), trigger |-> trigger, args |-> sid]

JobsWithId(js, jid) == {j \in BagToSet(js) : j.id = jid}

\* How many jobs of the running scheduler carry the id.
JobCount(js, jid) ==
    LET same == JobsWithId(js, jid)
    IN  IF same = {} THEN 0 ELSE BagCardinality([j \in same |-> js[j]])

\* The job store after store.remove_job on one job with the id (none: as is).
StoreRemove(js, jid) ==
    LET same == JobsWithId(js, jid)
    IN  IF same = {} THEN js ELSE js (-) SetToBag({CHOOSE j \in same : TRUE})

\* The pending list without its first job with the id.
RECURSIVE PendingRemove(_, _)
PendingRemove(pend, jid) ==
    IF pend = <<>> THEN <<>>
    ELSE IF Head(pend).id = jid THEN Tail(pend)
    ELSE <<Head(pend)>> \o PendingRemove(Tail(pend), jid)

\* A job store that takes the job without looking for its id.
StoreAddAgain(js, job) == js (+) SetToBag({job})

\* The job store after _real_add_job(job, replace_existing=True): a job
\* with the same id is updated in place, never doubled.
StoreAdd(js, job) == StoreRemove(js, job.id) (+) SetToBag({job})

\* A remove_job that finds nothing to remove.
remove_job_nothing(S, jid) == S

\* try: scheduler.remove_job(job_id) / except Exception: pass, on the
\* scheduler S = [state, pending, jobs].
remove_job(S, jid) ==
    IF S.state = "stopped"
    THEN [S EXCEPT !.pending = PendingRemove(S.pending, jid)]
    ELSE [S EXCEPT !.jobs = StoreRemove(S.jobs, jid)]

\* scheduler.add_job(execute_schedule, trigger, id=job_id, args=[id],
\* replace_existing=True).
add_job(S, job) ==
    IF S.state = "stopped"
    THEN [S EXCEPT !.pending = Append(S.pending, job)]
    ELSE [S EXCEPT !.jobs = StoreAdd(S.jobs, job)]

RECURSIVE StartPending(_, _)
\* scheduler.start(): every pending job is really added, in order.
StartPending(pend, js) ==
    IF pend = <<>> THEN js ELSE StartPending(Tail(pend), StoreAdd(js, Head(pend)))

Scheduler == [state |-> state, pending |-> pending, jobs |-> jobs]

\* The scheduler variables become those of S.
SetScheduler(S) == state' = S.state /\ pending' = S.pending /\ jobs' = S.jobs

\* ------------------------------------------------------------- stores

ESP32_URL == "esp32_url"

\* "http://192.168.1.100", the value init_db inserts.
DefaultUrl ==
    <<"h", "t", "t", "p", ":", "/", "/", "1", "9", "2", ".", "1", "6", "8", ".",
      "1", ".", "1", "0", "0">>

\* get_config(key): the value of the key, None when the table has no such row.
get_config(key) == IF key \in DOMAIN config THEN config[key] ELSE None

\* INSERT OR REPLACE of every item of data into a config table.
Upsert(table, data) ==
    [k \in DOMAIN table \cup DOMAIN data |-> IF k \in DOMAIN data THEN data[k] ELSE table[k]]

AllDays == <<"0", ",", "1", ",", "2", ",", "3", ",", "4", ",", "5", ",", "6">>

White == <<"#", "f", "f", "f", "f", "f", "f">>

\* An UPDATE that sets only the columns the body names: the others keep
\* the values of the row.
RowKeepingPrevious(sid, data) ==
    LET old == IF sid \in DOMAIN schedules /\ schedules[sid] # NoRow
               THEN schedules[sid]
               ELSE [days |-> AllDays, action |-> "on", relay |-> 1, strip |-> 1,
                     brightness |-> 255, color |-> White, enabled |-> 1]
    IN  [id |-> sid,
         time |-> data.time,
         days |-> Get(data, "days", old.days),
         action |-> Get(data, "action", old.action),
         relay |-> Get(data, "relay", old.relay),
         strip |-> Get(data, "strip", old.strip),
         brightness |-> Get(data, "brightness", old.brightness),
         color |-> Get(data, "color", old.color),
         enabled |-> Get(data, "enabled", old.enabled)]

\* The row an INSERT or UPDATE writes for the request body data: a column
\* the body omits takes the value given to data.get.
RowOf(sid, data) ==
    [id |-> sid,
     time |-> data.time,
     days |-> Get(data, "days", AllDays),
     action |-> Get(data, "action", "on"),
     relay |-> Get(data, "relay", 1),
     strip |-> Get(data, "strip", 1),
     brightness |-> Get(data, "brightness", 255),
     color |-> Get(data, "color", White),
     enabled |-> Get(data, "enabled", 1)]

\* SELECT * FROM schedules WHERE id = ? ... fetchone()
SelectSchedule(sid) == IF sid \in DOMAIN schedules THEN schedules[sid] ELSE NoRow

\* ------------------------------------------------------- schedule_job

\* A schedule_job that registers the job whatever the enabled flag says.
ShouldAddAlways(schedule) == TRUE

\* if schedule["enabled"]:
ShouldAdd(schedule) == schedule.enabled # 0

\* schedule_job(schedule) on the scheduler S: [S, raised].  The trigger is
\* derived first, so a record it cannot be derived from leaves S as it is.
schedule_job(S, schedule) ==
    LET trigger == DeriveTrigger(schedule)
        removed == remove_job(S, JobId(schedule.id))
    IN  IF IsRaised(trigger) THEN [S |-> S, raised |-> trigger.raised]
        ELSE IF ShouldAdd(schedule)
        THEN [S |-> add_job(removed, Job(schedule.id, trigger.v)), raised |-> ""]
        ELSE [S |-> removed, raised |-> ""]

RECURSIVE LoadRows(_, _)
\* The loop of load_all_schedules over the rows left to reconcile, in
\* rowid order: it stops at the first schedule_job that raises.
LoadRows(S, sid) ==
    IF sid > MaxId THEN [S |-> S, raised |-> ""]
    ELSE IF schedules[sid] = NoRow THEN LoadRows(S, sid + 1)
    ELSE LET r == schedule_job(S, schedules[sid])
         IN  IF r.raised # "" THEN r ELSE LoadRows(r.S, sid + 1)

\* ----------------------------------------------------------- __main__

Threads == {"t1", "t2"}

Workers == {"w1", "w2"}

NoTrigger == [none |-> TRUE]

IdleReq == [pc |-> "idle", sid |-> 0, schedule |-> NoRow]

\* No request served yet.
NoResp ==
    [op |-> "", sid |-> 0, data |-> NoRow, again |-> FALSE, done |-> FALSE, raised |-> ""]

IdleWrk == [pc |-> "idle", sid |-> 0, row |-> NoRow, base_url |-> None, calls |-> <<>>]

\* A worker that is not inside execute_schedule.
Free(w) == wrk[w].pc \in {"idle", "returned", "raised"}

\* A fresh database file, a process about to run the __main__ block, and
\* a device whose relay is off.
Init ==
    /\ schedules = [i \in Ids |-> NoRow]
    /\ seq = 0
    /\ config = <<>>
    /\ main = "init_db"
    /\ state = "stopped"
    /\ pending = <<>>
    /\ jobs = EmptyBag
    /\ req = [t \in Threads |-> IdleReq]
    /\ wrk = [w \in Workers |-> IdleWrk]
    /\ relay = "OFF"
    /\ was = [i \in Ids |-> NoTrigger]
    /\ resp = [t \in Threads |-> NoResp]

\* init_db(): INSERT OR IGNORE of the default device URL.
init_db ==
    /\ main = "init_db"
    /\ config' = IF ESP32_URL \in DOMAIN config THEN config
                 ELSE Upsert(config, [k \in {ESP32_URL} |-> DefaultUrl])
    /\ main' = "load_all"
    /\ UNCHANGED <<schedules, seq, state, pending, jobs, req, wrk, relay>>

\* load_all_schedules(): an exception of schedule_job ends the process
\* before the scheduler is started.
load_all_schedules ==
    /\ main = "load_all"
    /\ LET r == LoadRows(Scheduler, 1)
       IN  IF r.raised # ""
           THEN main' = "crashed" /\ UNCHANGED <<state, pending, jobs>>
           ELSE main' = "start" /\ SetScheduler(r.S)
    /\ UNCHANGED <<schedules, seq, config, req, wrk, relay>>

\* scheduler.start(), then app.run serves requests.
scheduler_start ==
    /\ main = "start"
    /\ state' = "running"
    /\ jobs' = StartPending(pending, jobs)
    /\ pending' = <<>>
    /\ main' = "serving"
    /\ UNCHANGED <<schedules, seq, config, req, wrk, relay>>

\* A finally clause that leaves the scheduler as it is.
scheduler_shutdown_forgotten ==
    /\ main = "serving"
    /\ \A t \in Threads : req[t].pc = "idle"
    /\ main' = "shutdown"
    /\ UNCHANGED <<schedules, seq, config, state, pending, jobs, req, wrk, relay>>

\* app.run returns and the finally clause calls scheduler.shutdown(),
\* which first stops the scheduler.
scheduler_shutdown ==
    /\ main = "serving"
    /\ \A t \in Threads : req[t].pc = "idle"
    /\ state' = "stopped"
    /\ main' = "shutdown"
    /\ UNCHANGED <<schedules, seq, config, pending, jobs, req, wrk, relay>>

\* scheduler.shutdown() then waits for the jobs that are running, empties
\* the in-memory job store and returns; the process ends.
scheduler_shutdown_wait ==
    /\ main = "shutdown"
    /\ \A w \in Workers : Free(w)
    /\ jobs' = EmptyBag
    /\ main' = "exited"
    /\ UNCHANGED <<schedules, seq, config, state, pending, req, wrk, relay>>

\* The program is run again on the database file the last run left.
process_start ==
    /\ main \in {"exited", "crashed"}
    /\ main' = "init_db"
    /\ state' = "stopped"
    /\ pending' = <<>>
    /\ jobs' = EmptyBag
    /\ req' = [t \in Threads |-> IdleReq]
    /\ wrk' = [w \in Workers |-> IdleWrk]
    /\ UNCHANGED <<schedules, seq, config, relay>>

\* ------------------------------------------------------- API handlers

\* The largest id among the stored rows, 0 for an empty table.
MaxRowid == LET S == {i \in Ids : schedules[i] # NoRow}
            IN  IF S = {} THEN 0 ELSE CHOOSE i \in S : \A j \in S : j <= i

\* The id of an INTEGER PRIMARY KEY column without AUTOINCREMENT: one more
\* than the largest id stored now.
NextIdMaxRowid == MaxRowid + 1

\* id INTEGER PRIMARY KEY AUTOINCREMENT: one more than the largest id the
\* table ever held, which sqlite_sequence records.
NextId == seq + 1

\* create_schedule up to db.commit(): the row gets the next id.
create_schedule(t, data) ==
    /\ main = "serving"
    /\ req[t].pc = "idle"
    /\ NextId <= MaxId
    /\ seq' = IF NextId > seq THEN NextId ELSE seq
    /\ schedules' = [schedules EXCEPT ![NextId] = RowOf(NextId, data)]
    /\ req' = [req EXCEPT ![t] = [pc |-> "select", sid |-> NextId, schedule |-> NoRow]]
    /\ UNCHANGED <<config, main, state, pending, jobs, wrk, relay>>

\* update_schedule up to db.commit(): an UPDATE of no row changes nothing.
update_schedule(t, sid, data) ==
    /\ main = "serving"
    /\ req[t].pc = "idle"
    /\ schedules' = IF schedules[sid] = NoRow THEN schedules
                    ELSE [schedules EXCEPT ![sid] = RowOf(sid, data)]
    /\ req' = [req EXCEPT ![t] = [pc |-> "select", sid |-> sid, schedule |-> NoRow]]
    /\ UNCHANGED <<seq, config, main, state, pending, jobs, wrk, relay>>

\* dict(row): dict(None) raises TypeError.
DictOf(row) == IF row = NoRow THEN Raise("TypeError") ELSE Ok(row)

\* schedule = dict(db.execute("SELECT ...").fetchone()) of create and
\* update: dict(None) raises TypeError and the handler ends.
select_schedule(t) ==
    /\ req[t].pc = "select"
    /\ LET schedule == DictOf(SelectSchedule(req[t].sid))
       IN  req' = [req EXCEPT ![t] =
                      IF IsRaised(schedule) THEN IdleReq
                      ELSE [pc |-> "schedule_job", sid |-> req[t].sid, schedule |-> schedule.v]]
    /\ UNCHANGED <<schedules, seq, config, main, state, pending, jobs, wrk, relay>>

\* schedule_job up to scheduler.remove_job: a trigger that cannot be
\* derived raises before the job is touched; a schedule that is not
\* enabled adds no job and the handler returns.
schedule_job_remove(t) ==
    /\ req[t].pc = "schedule_job"
    /\ LET schedule == req[t].schedule
           trigger == DeriveTrigger(schedule)
       IN  IF IsRaised(trigger)
           THEN req' = [req EXCEPT ![t] = IdleReq] /\ UNCHANGED <<state, pending, jobs>>
           ELSE /\ SetScheduler(remove_job(Scheduler, JobId(schedule.id)))
                /\ req' = [req EXCEPT ![t] =
                              IF ShouldAdd(schedule) THEN [@ EXCEPT !.pc = "add_job"]
                              ELSE IdleReq]
    /\ UNCHANGED <<schedules, seq, config, main, wrk, relay>>

\* scheduler.add_job of schedule_job for an enabled schedule; the handler
\* returns.
schedule_job_add(t) ==
    /\ req[t].pc = "add_job"
    /\ LET schedule == req[t].schedule
       IN  SetScheduler(add_job(Scheduler, Job(schedule.id, DeriveTrigger(schedule).v)))
    /\ req' = [req EXCEPT ![t] = IdleReq]
    /\ UNCHANGED <<schedules, seq, config, main, wrk, relay>>

\* A DELETE without its WHERE clause.
DeleteAllRows(sid) == [i \in Ids |-> NoRow]

\* DELETE FROM schedules WHERE id = ?
DeleteRow(sid) == [schedules EXCEPT ![sid] = NoRow]

\* delete_schedule up to db.commit().
delete_schedule(t, sid) ==
    /\ main = "serving"
    /\ req[t].pc = "idle"
    /\ schedules' = DeleteRow(sid)
    /\ req' = [req EXCEPT ![t] = [pc |-> "remove_job", sid |-> sid, schedule |-> NoRow]]
    /\ UNCHANGED <<seq, config, main, state, pending, jobs, wrk, relay>>

\* scheduler.remove_job of delete_schedule; the handler returns.
delete_schedule_remove(t) ==
    /\ req[t].pc = "remove_job"
    /\ SetScheduler(remove_job(Scheduler, JobId(req[t].sid)))
    /\ req' = [req EXCEPT ![t] = IdleReq]
    /\ UNCHANGED <<schedules, seq, config, main, wrk, relay>>

\* save_config: every item of the body is upserted, then committed.
save_config(data) ==
    /\ main = "serving"
    /\ config' = Upsert(config, data)
    /\ UNCHANGED <<schedules, seq, main, state, pending, jobs, req, wrk, relay>>

\* --------------------------------------------------- execute_schedule

\* The instants a trigger is asked about: (weekday, hour, minute), with
\* weekday 0 = Monday as datetime.weekday() counts.
Instants == [weekday : 0..6, hour : {7, 18}, minute : {0, 30}]

\* The weekday names of CronTrigger, which numbers them mon = 0 ... sun = 6.
WEEKDAYS == <<"mon", "tue", "wed", "thu", "fri", "sat", "sun">>

\* The trigger fires at the instant.
CronMatches(trigger, now) ==
    /\ \E i \in 1..7 : WEEKDAYS[i] \in trigger.day_of_week /\ i - 1 = now.weekday
    /\ trigger.hour = now.hour
    /\ trigger.minute = now.minute

\* A SELECT without its WHERE clause: fetchone() gives the first row.
FetchFirstRow(sid) ==
    IF \E i \in Ids : schedules[i] # NoRow
    THEN schedules[CHOOSE i \in Ids : schedules[i] # NoRow /\ \A k \in 1..(i - 1) : schedules[k] = NoRow]
    ELSE NoRow

\* The row execute_schedule acts on: the SELECT by id of line 77.
FetchSchedule(sid) == SelectSchedule(sid)

\* An execute_schedule without its `if not row`: dict(None) raises.
AfterSelectRaises(row) == IF row = NoRow THEN "raised" ELSE "get_config"

\* Lines 79-83: no row, and execute_schedule logs and returns.
AfterSelect(row) == IF row = NoRow THEN "returned" ELSE "get_config"

\* A check of the device URL that lets None through.
NoUrlEmptyOnly(base_url) == base_url = <<>>

\* if not base_url:
NoUrl(base_url) == Falsy(base_url)

\* The first device step after the config check of execute_schedule.
AfterConfig(row) ==
    IF row.relay # 0 THEN "relaystatus" ELSE IF row.strip # 0 THEN "strip" ELSE "returned"

\* Where execute_schedule goes once _set_relay has returned.
AfterRelay(row) == IF row.strip # 0 THEN "strip" ELSE "returned"

\* desired = "ON" if turn_on else "OFF", with turn_on = (action == "on")
Desired(row) == IF row.action = "on" THEN "ON" ELSE "OFF"

\* _set_relay's test: the toggle is wanted when the reported text differs.
NeedsToggle(current, desired) == current # desired

Toggled(r) == IF r = "ON" THEN "OFF" ELSE "ON"

\* The params of the strip call of _set_strip, or the exception the color
\* decoding raises.
StripParams(schedule) ==
    IF schedule.action = "on"
    THEN LET color == LStrip(schedule.color, "#")
             r == PyHex(Slice(color, 0, 2))
             g_val == PyHex(Slice(color, 2, 4))
             b == PyHex(Slice(color, 4, 6))
         IN  IF IsRaised(r) \/ IsRaised(g_val) \/ IsRaised(b) THEN Raise("ValueError")
             ELSE Ok([on |-> 1, brightness |-> schedule.brightness, r |-> r.v,
                      g |-> g_val.v, b |-> b.v, mode |-> "solid"])
    ELSE Ok([on |-> 0])

\* One HTTP GET to the device: the endpoint, the params, whether a
\* response came back, and its body text.
Call(ep, params, outcome, text) ==
    [ep |-> ep, params |-> params, outcome |-> outcome, text |-> text]

\* What requests.get comes to: a response with a 2xx status, a response
\* with another status (get returns it, nothing calls raise_for_status), or
\* a RequestException (timeout, connection failure).
Outcomes == {"2xx", "non_2xx", "exception"}

NoParams == [none |-> TRUE]

\* The scheduler runs a due job on a free worker: at most one instance of
\* a job runs at a time (max_instances = 1).
fire(w) ==
    /\ state = "running"
    /\ Free(w)
    /\ \E job \in {j \in BagToSet(jobs) : \E now \in Instants : CronMatches(j.trigger, now)} :
          /\ \A v \in Workers : Free(v) \/ JobId(wrk[v].sid) # job.id
          /\ wrk' = [wrk EXCEPT ![w] = [IdleWrk EXCEPT !.pc = "select", !.sid = job.args]]
    /\ UNCHANGED <<schedules, seq, config, main, state, pending, jobs, req, relay>>

\* execute_schedule, lines 75-81: no row, and it returns.
execute_select(w) ==
    /\ wrk[w].pc = "select"
    /\ LET row == FetchSchedule(wrk[w].sid)
       IN  wrk' = [wrk EXCEPT ![w] = [@ EXCEPT !.pc = AfterSelect(row), !.row = row]]
    /\ UNCHANGED <<schedules, seq, config, main, state, pending, jobs, req, relay>>

\* execute_schedule, lines 84-87: no device URL, and it returns.
execute_get_config(w) ==
    /\ wrk[w].pc = "get_config"
    /\ LET base_url == get_config(ESP32_URL)
       IN  wrk' = [wrk EXCEPT ![w] =
                      [@ EXCEPT !.base_url = base_url,
                                !.pc = IF NoUrl(base_url) THEN "returned"
                                       ELSE AfterConfig(wrk[w].row)]]
    /\ UNCHANGED <<schedules, seq, config, main, state, pending, jobs, req, relay>>

\* What the status call can come to: the device answers with the relay's
\* state, or with an HTTP error page (which requests.get returns like any
\* response), or the call raises a RequestException.
\* _set_relay, lines 100-103: the status call; a RequestException is
\* caught and ends _set_relay.
set_relay_status(w) ==
    /\ wrk[w].pc = "relaystatus"
    /\ \E outcome \in Outcomes :
          LET row == wrk[w].row
              ok == outcome # "exception"
              current == IF outcome = "2xx" THEN relay
                         ELSE IF outcome = "non_2xx" THEN "Not Found" ELSE ""
              call == Call("relaystatus", NoParams, outcome, current)
          IN  wrk' = [wrk EXCEPT ![w] =
                         [@ EXCEPT !.calls = Append(@, call),
                                   !.pc = IF ok /\ NeedsToggle(current, Desired(row))
                                          THEN "relay" ELSE AfterRelay(row)]]
    /\ UNCHANGED <<schedules, seq, config, main, state, pending, jobs, req, relay>>

\* _set_relay, line 104: the toggle call.  When it raises, the device may
\* or may not have toggled.
set_relay_toggle(w) ==
    /\ wrk[w].pc = "relay"
    /\ \E outcome \in Outcomes, done \in BOOLEAN :
          /\ outcome = "2xx" => done
          /\ relay' = IF done THEN Toggled(relay) ELSE relay
          /\ wrk' = [wrk EXCEPT ![w] =
                         [@ EXCEPT !.calls = Append(@, Call("relay", NoParams, outcome, "")),
                                   !.pc = AfterRelay(wrk[w].row)]]
    /\ UNCHANGED <<schedules, seq, config, main, state, pending, jobs, req>>

\* An executor that lets the exception of a job end the scheduler.
JobRaisedStops(st) == "stopped"

\* The state of the scheduler after a job has raised: the executor catches
\* the exception, logs it and goes on.
JobRaised(st) == st

\* _set_strip: the strip call, unless decoding the color raises (a
\* ValueError is not a RequestException and leaves execute_schedule).
set_strip(w) ==
    /\ wrk[w].pc = "strip"
    /\ LET params == StripParams(wrk[w].row)
       IN  IF IsRaised(params)
           THEN /\ wrk' = [wrk EXCEPT ![w] = [@ EXCEPT !.pc = "raised"]]
                /\ state' = JobRaised(state)
           ELSE /\ \E outcome \in Outcomes :
                     wrk' = [wrk EXCEPT ![w] =
                                [@ EXCEPT !.calls = Append(@, Call("strip", params.v, outcome, "")),
                                          !.pc = "returned"]]
                /\ state' = state
    /\ UNCHANGED <<schedules, seq, config, main, pending, jobs, req, relay>>

\* ------------------------------------------------------ request bodies

T1830 == <<"1", "8", ":", "3", "0">>

T0700 == <<"0", "7", ":", "0", "0">>

Weekdays == <<"0", ",", "1", ",", "2", ",", "3", ",", "4">>

Weekend == <<"6", ",", "5">>

C112233 == <<"#", "1", "1", "2", "2", "3", "3">>

\* The "Evening" schedule; enabled is left to its default.
Evening ==
    [time |-> T1830, days |-> Weekdays, action |-> "on", relay |-> 1, strip |-> 1,
     brightness |-> 128, color |-> C112233]

\* Evening moved to the morning and disabled.
MorningDisabled == [Evening EXCEPT !.time = T0700] @@ [enabled |-> 0]

\* Switches everything off at the weekend; relay, strip, brightness and
\* color are left to their defaults.
WeekendOff == [time |-> T0700, days |-> Weekend, action |-> "off", enabled |-> 1]

\* Only the required time, and disabled.
BareDisabled == [time |-> T1830, enabled |-> 0]

\* Bodies that differ in what the trigger and the job depend on.
Bodies == {Evening, MorningDisabled, WeekendOff, BareDisabled}

\* Fewer bodies, for the specification with two handler threads: two
\* enabled schedules with different triggers and actions, one disabled.
ConcBodies == {Evening, WeekendOff, BareDisabled}

\* The bodies of the requests served while jobs fire: two enabled
\* schedules with different triggers, actions and device fields.
FireBodies == {Evening, WeekendOff}

\* Saturday and Sunday, with an index given twice.
SatSunSat ==
    [time |-> T0700, days |-> <<"5", ",", "6", ",", "5">>, action |-> "on", relay |-> 0]

\* A time without its colon, and disabled: no trigger can be derived.
BadTimeDisabled == [time |-> <<"1", "8", "3", "0">>, enabled |-> 0]

\* A day index DAY_NAMES does not have.
BadDays == [time |-> T1830, days |-> <<"0", ",", "7">>]

\* Bodies as the handlers take them, unvalidated: well-formed ones that
\* differ in time and in the order and repetition of days, and malformed
\* ones.
AnyBodies == {Evening, WeekendOff, SatSunSat, BadTimeDisabled, BadDays}

\* Bodies of save_config.
OtherUrl == <<"h", "t", "t", "p", ":", "/", "/", "e", "s", "p">>

ConfigBodies == {[k \in {ESP32_URL} |-> <<>>], [k \in {ESP32_URL} |-> OtherUrl]}

\* Colors: six hex digits with and without '#', and one that is too short.
Colors ==
    {<<"#", "f", "f", "0", "0", "0", "0">>,
     <<"0", "0", "f", "f", "0", "0">>,
     C112233,
     <<"a", "b", "c", "d", "e", "f">>,
     <<"#", "F", "F", "8", "0", "0", "0">>,
     <<"#", "f", "f", "f">>}

\* Enabled schedules over every combination of the fields execute_schedule
\* reads; color is left out of some to take its default.
ExecBodies ==
    LET some == [time : {T1830}, days : {Weekdays}, action : {"on", "off"},
                 relay : {0, 1}, strip : {0, 1}, brightness : {0, 128, 255}]
    IN  some \cup {d @@ [color |-> c] : d \in some, c \in Colors}

\* ------------------------------------------------------ specification

\* The history variable after a step: when an update that stored
\* enabled = 0 reconciles a schedule that has a job, the trigger of that
\* job is remembered, until the row is deleted.
WasNext ==
    [sid \in Ids |->
        LET found == JobsWithId(jobs, JobId(sid))
        IN  IF schedules[sid] # NoRow /\ schedules'[sid] = NoRow THEN NoTrigger
            ELSE IF /\ found # {}
                    /\ \E t \in Threads : /\ req[t].pc = "schedule_job"
                                          /\ req'[t].pc # "schedule_job"
                                          /\ req[t].sid = sid
                                          /\ req[t].schedule.enabled = 0
                                          /\ ~IsRaised(DeriveTrigger(req[t].schedule))
            THEN (CHOOSE j \in found : TRUE).trigger
            ELSE was[sid]]

\* What scheduler.remove_job raises: JobLookupError when no job has the id.
JobLookup(S, jid) ==
    IF JobCount(S.jobs, jid) = 0 /\ \A i \in 1..Len(S.pending) : S.pending[i].id # jid
    THEN "JobLookupError" ELSE ""

\* try: ... except Exception: pass
Swallow(exc) == ""

\* The exception that leaves the handler of thread t at the step it is
\* about to take, "" when the step raises none: Flask answers an uncaught
\* exception with a 500 response.
HandlerRaises(t) ==
    CASE req[t].pc = "select" -> DictOf(SelectSchedule(req[t].sid)).raised
      [] req[t].pc = "schedule_job" ->
             IF IsRaised(DeriveTrigger(req[t].schedule))
             THEN DeriveTrigger(req[t].schedule).raised
             ELSE Swallow(JobLookup(Scheduler, JobId(req[t].sid)))
      [] req[t].pc = "remove_job" -> Swallow(JobLookup(Scheduler, JobId(req[t].sid)))
      [] OTHER -> ""

\* The history of requests after a step that ends a handler: how it
\* ended.
RespNext ==
    [t \in Threads |->
        IF req[t].pc # "idle" /\ req'[t].pc = "idle"
        THEN [resp[t] EXCEPT !.done = TRUE, !.raised = HandlerRaises(t)]
        ELSE resp[t]]

Tracked == was' = WasNext /\ resp' = RespNext

\* The history after the step that begins the request op of thread t with
\* the body data; again says that it repeats, for the same id, the request
\* the thread served last.
Began(t, op, data) ==
    /\ was' = WasNext
    /\ resp' = [resp EXCEPT ![t] =
                   [op |-> op, sid |-> req'[t].sid, data |-> data,
                    again |-> resp[t].done /\ resp[t].op = op /\ resp[t].sid = req'[t].sid,
                    done |-> FALSE, raised |-> ""]]

Untracked == UNCHANGED <<was, resp>>

\* The steps of the handler thread t serving requests with bodies from B.
Handler(t, B) ==
    \/ (\E data \in B : create_schedule(t, data)) /\ Untracked
    \/ (\E sid \in Ids, data \in B : update_schedule(t, sid, data)) /\ Untracked
    \/ (\E sid \in Ids : delete_schedule(t, sid)) /\ Untracked
    \/ select_schedule(t) /\ Untracked
    \/ schedule_job_remove(t) /\ Untracked
    \/ schedule_job_add(t) /\ Untracked
    \/ delete_schedule_remove(t) /\ Untracked

\* The same steps, with the history kept.
HandlerTracked(t, B) ==
    \/ \E data \in B : create_schedule(t, data) /\ Began(t, "create", data)
    \/ \E sid \in Ids, data \in B : update_schedule(t, sid, data) /\ Began(t, "update", data)
    \/ \E sid \in Ids : delete_schedule(t, sid) /\ Began(t, "delete", NoRow)
    \/ select_schedule(t) /\ Tracked
    \/ schedule_job_remove(t) /\ Tracked
    \/ schedule_job_add(t) /\ Tracked
    \/ delete_schedule_remove(t) /\ Tracked

\* The steps of the __main__ block, and the program being run again.
Main ==
    \/ init_db /\ Untracked
    \/ load_all_schedules /\ Untracked
    \/ scheduler_start /\ Untracked
    \/ scheduler_shutdown /\ Untracked
    \/ scheduler_shutdown_wait /\ Untracked
    \/ process_start /\ Untracked

\* The steps of execute_schedule on the worker w.
Execute(w) ==
    \/ fire(w) /\ Untracked
    \/ execute_select(w) /\ Untracked
    \/ execute_get_config(w) /\ Untracked
    \/ set_relay_status(w) /\ Untracked
    \/ set_relay_toggle(w) /\ Untracked
    \/ set_strip(w) /\ Untracked

\* One handler thread: every request runs to completion before the next.
Next == Main \/ HandlerTracked("t1", Bodies)

Spec == Init /\ [][Next]_vars

\* One handler thread, serving whatever bodies it is sent.
NextAny == Main \/ HandlerTracked("t1", AnyBodies)

SpecAny == Init /\ [][NextAny]_vars

\* One handler thread and one worker: a job fires and runs while requests
\* are served.
NextFire == Main \/ Handler("t1", FireBodies) \/ Execute("w1")

SpecFire == Init /\ [][NextFire]_vars

\* Two handler threads: requests are served concurrently.
NextConc ==
    \/ Main
    \/ Handler("t1", ConcBodies)
    \/ Handler("t2", ConcBodies)

SpecConc == Init /\ [][NextConc]_vars

\* execute_schedule as a function of what it finds: the database holds
\* one enabled schedule, whose job schedule_job has registered, and a
\* config table with or without the device URL.  (A run of __main__ has
\* always inserted the URL; the table without it is the input get_config
\* answers None to.)
InitExecute ==
    /\ \E data \in ExecBodies :
          LET row == RowOf(1, data)
              S == [state |-> "running", pending |-> <<>>, jobs |-> EmptyBag]
          IN  /\ schedules = [i \in Ids |-> IF i = 1 THEN row ELSE NoRow]
              /\ jobs = schedule_job(S, row).S.jobs
    /\ seq = 1
    /\ config \in {<<>>, [k \in {ESP32_URL} |-> DefaultUrl]}
    /\ main = "serving"
    /\ state = "running"
    /\ pending = <<>>
    /\ req = [t \in Threads |-> IdleReq]
    /\ wrk = [w \in Workers |-> IdleWrk]
    /\ relay \in {"ON", "OFF"}
    /\ was = [i \in Ids |-> NoTrigger]
    /\ resp = [t \in Threads |-> NoResp]

NextExecute ==
    \/ Execute("w1")
    \/ (\E data \in ConfigBodies : save_config(data)) /\ Untracked

SpecExecute == InitExecute /\ [][NextExecute]_vars

\* The same, while the schedule is being deleted: execute_schedule may
\* find no row.
NextOutcomes ==
    \/ NextExecute
    \/ (\E sid \in Ids : delete_schedule("t1", sid)) /\ Untracked
    \/ delete_schedule_remove("t1") /\ Untracked

SpecOutcomes == InitExecute /\ [][NextOutcomes]_vars

\* Two enabled schedules that share time, days and action and control the
\* relay, with or without the strip.
TwinBodies ==
    {[time |-> T1830, days |-> Weekdays, action |-> a, relay |-> 1, strip |-> st] :
        a \in {"on", "off"}, st \in {0, 1}}

\* The running program with the two schedules stored and their jobs
\* registered.
InitTwins ==
    /\ \E data \in TwinBodies :
          LET S0 == [state |-> "running", pending |-> <<>>, jobs |-> EmptyBag]
              S1 == schedule_job(S0, RowOf(1, data)).S
              S2 == schedule_job(S1, RowOf(2, data)).S
          IN  /\ schedules = [i \in Ids |-> IF i <= 2 THEN RowOf(i, data) ELSE NoRow]
              /\ jobs = S2.jobs
    /\ seq = 2
    /\ config = [k \in {ESP32_URL} |-> DefaultUrl]
    /\ main = "serving"
    /\ state = "running"
    /\ pending = <<>>
    /\ req = [t \in Threads |-> IdleReq]
    /\ wrk = [w \in Workers |-> IdleWrk]
    /\ relay \in {"ON", "OFF"}
    /\ was = [i \in Ids |-> NoTrigger]
    /\ resp = [t \in Threads |-> NoResp]

\* Two workers: the jobs of the two schedules are due together and run
\* each on its own thread of the executor.
NextTwins == Execute("w1") \/ Execute("w2")

SpecTwins == InitTwins /\ [][NextTwins]_vars

\* ------------------------------------------------------------- claims

AllIdle == \A t \in Threads : req[t].pc = "idle"

\* The schedule has a row whose enabled flag is true.
Enabled(sid) == schedules[sid] # NoRow /\ schedules[sid].enabled # 0

\* C1: while requests are served one at a time, whenever no request is in
\* progress a job schedule_<id> is registered exactly when the store holds
\* an enabled schedule with that id, and every registered job is the job
\* of such a schedule; load_all_schedules and a restart keep it so.
C1_JobIffEnabled ==
    (main = "serving" /\ AllIdle) =>
        /\ \A sid \in Ids : JobCount(jobs, JobId(sid)) = IF Enabled(sid) THEN 1 ELSE 0
        /\ \A j \in BagToSet(jobs) : \E sid \in Ids : j.id = JobId(sid) /\ Enabled(sid)
        /\ pending = <<>>

\* C1 witness: schedule 1 was created and deleted and has no job, while
\* schedule 2 is enabled and has its job.
C1_Witness ==
    /\ main = "serving" /\ AllIdle
    /\ seq = 2
    /\ schedules[1] = NoRow /\ JobCount(jobs, JobId(1)) = 0
    /\ Enabled(2) /\ JobCount(jobs, JobId(2)) = 1

\* The trigger derived from the time and days the store holds for the id.
StoredTrigger(sid) == DeriveTrigger(schedules[sid]).v

PendingCount(jid) == Cardinality({i \in 1..Len(pending) : pending[i].id = jid})

\* C2: under two handler threads in any interleaving, no state has more
\* than one job registered (or pending) for a schedule id, and the add_job
\* of a reconcile leaves exactly one job for its id.
C2_AtMostOneJob ==
    /\ [](\A sid \in Ids : JobCount(jobs, JobId(sid)) <= 1 /\ PendingCount(JobId(sid)) <= 1)
    /\ [][\A t \in Threads :
            (req[t].pc = "add_job" /\ req'[t].pc = "idle")
                => JobCount(jobs', JobId(req[t].sid)) = 1]_vars

\* C2 witness: a reconcile has removed the job of its id and is about to
\* add one, and meanwhile the other thread has registered a job for the
\* same id.
C2_Witness ==
    \E t \in Threads : req[t].pc = "add_job" /\ JobCount(jobs, JobId(req[t].sid)) = 1

\* C3: under two handler threads, once every request has returned the job
\* set reflects the store: an enabled stored schedule has exactly one job,
\* with the trigger derived from the stored time and days, and any other
\* id has none.
C3_JobSetReflectsStore ==
    (main = "serving" /\ AllIdle) =>
        \A sid \in Ids :
            IF Enabled(sid)
            THEN /\ JobCount(jobs, JobId(sid)) = 1
                 /\ \A j \in JobsWithId(jobs, JobId(sid)) : j.trigger = StoredTrigger(sid)
            ELSE JobCount(jobs, JobId(sid)) = 0

\* C4: once an update storing enabled = 0 has reconciled a schedule that
\* had a job, then whenever no request is in progress the schedule has no
\* job while it stays disabled, and after a later update storing
\* enabled = 1 it has exactly one job, whose trigger is the one derived
\* from the time and days now stored.
C4_DisableThenEnable ==
    \A sid \in Ids :
        (was[sid] # NoTrigger /\ main = "serving" /\ AllIdle /\ schedules[sid] # NoRow) =>
            IF schedules[sid].enabled = 0 THEN JobsWithId(jobs, JobId(sid)) = {}
            ELSE /\ JobsWithId(jobs, JobId(sid)) = {Job(sid, StoredTrigger(sid))}
                 /\ JobCount(jobs, JobId(sid)) = 1

\* C4 witness: schedule 1 lost a job to a disabling update and has been
\* enabled again with another time or other days: its job now carries a
\* trigger that differs from the one removed.
C4_Witness ==
    /\ main = "serving" /\ AllIdle
    /\ was[1] # NoTrigger
    /\ Enabled(1)
    /\ \E j \in JobsWithId(jobs, JobId(1)) :
          j.trigger # was[1] /\ j.trigger = StoredTrigger(1)

\* The worker is past the given stage of execute_schedule.
Selected(w) == wrk[w].pc \notin {"idle", "select"}

Configured(w) == wrk[w].pc \notin {"idle", "select", "get_config"}

Finished(w) == wrk[w].pc \in {"returned", "raised"}

LastCall(w) == wrk[w].calls[Len(wrk[w].calls)]

\* What the claims expect of a call, stated from the record alone.
DesiredState(row) == IF row.action = "on" THEN "ON" ELSE "OFF"

\* C5: execute_schedule acts on the record the store holds for its id
\* when it reads it, keeps to that record, and every device call it then
\* issues is the one that record determines (relay calls only if relay is
\* set, a toggle only against its action, strip params from its action,
\* brightness and color), whatever record the job was registered from.
C5_ActsOnStoredRecord ==
    [][\A w \in Workers :
        /\ (wrk[w].pc = "select" /\ wrk'[w].pc # "select")
               => wrk'[w].row = schedules[wrk[w].sid]
        /\ (Selected(w) /\ ~Finished(w)) => wrk'[w].row = wrk[w].row
        /\ (Selected(w) /\ Len(wrk'[w].calls) > Len(wrk[w].calls)) =>
               LET row == wrk[w].row
                   c == wrk'[w].calls[Len(wrk'[w].calls)]
               IN  /\ Len(wrk'[w].calls) = Len(wrk[w].calls) + 1
                   /\ c.ep = "relaystatus" => row.relay # 0
                   /\ c.ep = "relay" =>
                          row.relay # 0 /\ LastCall(w).text # DesiredState(row)
                   /\ c.ep = "strip" =>
                          /\ row.strip # 0
                          /\ c.params = StripParams(row).v]_vars

\* C5 witness: the job of schedule 1 still carries the trigger it was
\* registered with from the Evening record (action on); an update has
\* since stored the WeekendOff record, and the fire has acted on that one:
\* its strip call says off.
C5_Witness ==
    /\ \E j \in BagToSet(jobs) :
          j.id = JobId(1) /\ j.trigger = DeriveTrigger(RowOf(1, Evening)).v
    /\ wrk["w1"].pc = "returned"
    /\ wrk["w1"].sid = 1
    /\ wrk["w1"].row = RowOf(1, WeekendOff)
    /\ wrk["w1"].calls # <<>>
    /\ LastCall("w1").ep = "strip"
    /\ LastCall("w1").params = [on |-> 0]

\* C6: an execute_schedule that finds no row for its id returns normally
\* and has issued no call to the device.
C6_DeletedScheduleNoop ==
    \A w \in Workers :
        (Selected(w) /\ wrk[w].row = NoRow) =>
            wrk[w].pc = "returned" /\ wrk[w].calls = <<>>

\* C6 witness: delete_schedule has committed the DELETE of schedule 1 and
\* not yet removed the job; the job has fired, found no row and returned.
C6_Witness ==
    /\ req["t1"].pc = "remove_job" /\ req["t1"].sid = 1
    /\ schedules[1] = NoRow
    /\ JobCount(jobs, JobId(1)) = 1
    /\ wrk["w1"].pc = "returned" /\ wrk["w1"].sid = 1
    /\ wrk["w1"].row = NoRow /\ wrk["w1"].calls = <<>>

\* C7: when get_config gives no device URL (the key is absent, or its
\* value is empty) for an existing schedule, execute_schedule returns
\* having issued no call, and the job of the schedule is still registered.
C7_NoUrlNoCalls ==
    \A w \in Workers :
        (Configured(w) /\ wrk[w].row # NoRow /\ wrk[w].base_url \in {None, <<>>}) =>
            /\ wrk[w].pc = "returned"
            /\ wrk[w].calls = <<>>
            /\ JobCount(jobs, JobId(wrk[w].sid)) = 1

\* C7 witness: the config table has no esp32_url row, and an execute of the
\* stored schedule 1 has returned without a call, its job still there.
C7_Witness ==
    /\ ESP32_URL \notin DOMAIN config
    /\ schedules[1] # NoRow
    /\ wrk["w1"].pc = "returned" /\ wrk["w1"].row = schedules[1]
    /\ wrk["w1"].base_url = None
    /\ wrk["w1"].calls = <<>>
    /\ JobCount(jobs, JobId(1)) = 1

IsRelayCall(c) == c.ep \in {"relaystatus", "relay"}

IsStripCall(c) == c.ep = "strip"

\* The call got a response with a 2xx status.
Succeeded(c) == c.outcome = "2xx"

\* C8: for a schedule with relay set, once the relay step is over the
\* calls begin with exactly one status call, followed by exactly one
\* toggle if the status call succeeded and the reported state differs from
\* the desired state, and by none otherwise; no call is made twice.
C8_RelayCalls ==
    \A w \in Workers :
        (/\ wrk[w].pc \in {"strip", "returned", "raised"}
         /\ wrk[w].row # NoRow /\ ~Falsy(wrk[w].base_url) /\ wrk[w].row.relay # 0) =>
            LET rel == SelectSeq(wrk[w].calls, IsRelayCall)
                row == wrk[w].row
            IN  /\ Len(rel) >= 1
                /\ rel[1].ep = "relaystatus"
                /\ \A i \in 1..Len(rel) : wrk[w].calls[i] = rel[i]
                /\ Len(rel) = IF Succeeded(rel[1]) /\ rel[1].text # DesiredState(row)
                              THEN 2 ELSE 1
                /\ Len(rel) = 2 => rel[2].ep = "relay"

HexChars ==
    {"0", "1", "2", "3", "4", "5", "6", "7", "8", "9",
     "a", "b", "c", "d", "e", "f", "A", "B", "C", "D", "E", "F"}

\* The color of the data model: six hex digits, or '#' and six hex digits.
SixHexDigits(color) ==
    \/ Len(color) = 6 /\ \A i \in 1..6 : color[i] \in HexChars
    \/ Len(color) = 7 /\ color[1] = "#" /\ \A i \in 2..7 : color[i] \in HexChars

\* C9: for a schedule with strip set, an execute that got the device URL
\* ends by returning with exactly one strip call, its last call, whatever
\* the relay step came to; when the action is off its params are {on: 0}.
C9_StripAlwaysCalled ==
    \A w \in Workers :
        (/\ Finished(w) /\ wrk[w].row # NoRow /\ ~Falsy(wrk[w].base_url)
         /\ wrk[w].row.strip # 0) =>
            /\ wrk[w].pc = "returned"
            /\ Len(SelectSeq(wrk[w].calls, IsStripCall)) = 1
            /\ LastCall(w).ep = "strip"
            /\ wrk[w].row.action = "off" => LastCall(w).params = [on |-> 0]

\* The r, g, b the claim expects: the values of the three pairs of digits.
ExpectedRGB(color) ==
    CASE color = <<"#", "f", "f", "0", "0", "0", "0">> -> <<255, 0, 0>>
      [] color = <<"0", "0", "f", "f", "0", "0">> -> <<0, 255, 0>>
      [] color = <<"#", "1", "1", "2", "2", "3", "3">> -> <<17, 34, 51>>
      [] color = <<"a", "b", "c", "d", "e", "f">> -> <<171, 205, 239>>
      [] color = <<"#", "F", "F", "8", "0", "0", "0">> -> <<255, 128, 0>>
      [] color = <<"#", "f", "f", "f", "f", "f", "f">> -> <<255, 255, 255>>

\* C10: for action on and a color of six hex digits with or without '#',
\* every strip call carries on = 1, mode = solid, the brightness of the
\* schedule and the r, g, b of the three pairs of hex digits.
C10_StripOnParams ==
    \A w \in Workers :
        \A i \in 1..Len(wrk[w].calls) :
            (/\ wrk[w].calls[i].ep = "strip"
             /\ wrk[w].row.action = "on"
             /\ SixHexDigits(wrk[w].row.color)) =>
                wrk[w].calls[i].params =
                    [on |-> 1,
                     brightness |-> wrk[w].row.brightness,
                     r |-> ExpectedRGB(wrk[w].row.color)[1],
                     g |-> ExpectedRGB(wrk[w].row.color)[2],
                     b |-> ExpectedRGB(wrk[w].row.color)[3],
                     mode |-> "solid"]

\* C10 witness: the strip call of the Evening schedule, {on: 1,
\* brightness: 128, r: 17, g: 34, b: 51, mode: solid}.
C10_Witness ==
    /\ wrk["w1"].pc = "returned"
    /\ wrk["w1"].row # NoRow
    /\ wrk["w1"].row.color = C112233
    /\ wrk["w1"].calls # <<>>
    /\ LastCall("w1").ep = "strip"
    /\ LastCall("w1").params =
          [on |-> 1, brightness |-> 128, r |-> 17, g |-> 34, b |-> 51, mode |-> "solid"]

\* C11: an update for an id the store has no row of changes neither the
\* store nor the job set, at its UPDATE and at its re-read, and ends with a
\* not-found error for its caller.
C11_UpdateAbsentNotFound ==
    [][\A t \in Threads :
        /\ (req[t].pc = "idle" /\ req'[t].pc = "select" /\ resp'[t].op = "update"
             /\ schedules[req'[t].sid] = NoRow) =>
               schedules' = schedules /\ jobs' = jobs /\ pending' = pending
        /\ (req[t].pc = "select" /\ resp[t].op = "update"
             /\ schedules[req[t].sid] = NoRow /\ req'[t] # req[t]) =>
               /\ schedules' = schedules /\ jobs' = jobs /\ pending' = pending
               /\ resp'[t].done
               /\ resp'[t].raised = "NotFound"]_vars

\* The jobs of js whose id is not jid.
OtherJobs(js, jid) == {j \in BagToSet(js) : j.id # jid}

\* C12: a delete never ends in an error; its DELETE leaves no row for the
\* id and every other row as it was, its remove_job leaves no job for the
\* id and every other job as it was; on an id without a row the DELETE
\* changes nothing and on an id without a job the remove_job changes
\* nothing, so that a delete repeated for the same id leaves the store and
\* the job set as the first left them.
C12_DeleteIdempotent ==
    [][\A t \in Threads :
        /\ (req[t].pc = "idle" /\ req'[t].pc = "remove_job") =>
               LET sid == req'[t].sid
               IN  /\ schedules'[sid] = NoRow
                   /\ \A o \in Ids \ {sid} : schedules'[o] = schedules[o]
                   /\ jobs' = jobs
                   /\ schedules[sid] = NoRow => schedules' = schedules
                   /\ resp'[t].again => schedules' = schedules
        /\ (req[t].pc = "remove_job" /\ req'[t].pc = "idle") =>
               LET jid == JobId(req[t].sid)
               IN  /\ resp'[t].done /\ resp'[t].raised = ""
                   /\ schedules' = schedules
                   /\ JobCount(jobs', jid) = 0
                   /\ OtherJobs(jobs', jid) = OtherJobs(jobs, jid)
                   /\ \A j \in OtherJobs(jobs, jid) : CopiesIn(j, jobs') = CopiesIn(j, jobs)
                   /\ JobCount(jobs, jid) = 0 => jobs' = jobs
                   /\ resp[t].again => jobs' = jobs]_vars

\* C12 witness: schedule 1 has been deleted a second time without error
\* and has no row and no job, while schedule 2 is stored, enabled, with its
\* job.
C12_Witness ==
    /\ main = "serving" /\ AllIdle
    /\ resp["t1"].op = "delete" /\ resp["t1"].sid = 1
    /\ resp["t1"].again /\ resp["t1"].done /\ resp["t1"].raised = ""
    /\ schedules[1] = NoRow /\ JobCount(jobs, JobId(1)) = 0
    /\ Enabled(2) /\ JobCount(jobs, JobId(2)) = 1

\* The trigger of the schedule can be derived from its time and days.
Derivable(sid) == schedules[sid] # NoRow /\ ~IsRaised(DeriveTrigger(schedules[sid]))

\* C13: load_all_schedules returns whatever the persisted records are, and
\* once it has, every enabled schedule with a derivable trigger has its job
\* waiting for the scheduler to start.
C13_LoadAllReconciles ==
    /\ main # "crashed"
    /\ main = "start" =>
          \A sid \in Ids :
              (Enabled(sid) /\ Derivable(sid)) => PendingCount(JobId(sid)) = 1

\* The weekdays the claim maps a days value to, 0 = Monday ... 6 = Sunday.
ExpectedWeekdays(days) ==
    CASE days = <<"0", ",", "1", ",", "2", ",", "3", ",", "4">> -> {0, 1, 2, 3, 4}
      [] days = <<"6", ",", "5">> -> {5, 6}
      [] days = <<"5", ",", "6", ",", "5">> -> {5, 6}
      [] days = <<"0", ",", "1", ",", "2", ",", "3", ",", "4", ",", "5", ",", "6">> -> 0..6

\* The hour and minute of a time value.
ExpectedHourMinute(time) ==
    CASE time = <<"1", "8", ":", "3", "0">> -> <<18, 30>>
      [] time = <<"0", "7", ":", "0", "0">> -> <<7, 0>>

\* C14: the job that schedule_job registers for a record fires at an
\* instant exactly when the instant has the hour and minute of the time of
\* the record and its weekday, counted from Monday = 0, is one of the
\* indices of its days.
C14_TriggerWeekdays ==
    [][\A t \in Threads :
        (req[t].pc = "add_job" /\ req'[t].pc = "idle") =>
            /\ JobsWithId(jobs', JobId(req[t].sid)) # {}
            /\ \A j \in JobsWithId(jobs', JobId(req[t].sid)) : \A now \in Instants :
                  CronMatches(j.trigger, now) <=>
                      /\ now.weekday \in ExpectedWeekdays(req[t].schedule.days)
                      /\ <<now.hour, now.minute>> = ExpectedHourMinute(req[t].schedule.time)]_vars

\* C14 witness: the jobs of a schedule with days "6,5" and of one with
\* days "5,6,5" are registered, with the same trigger.
C14_Witness ==
    /\ main = "serving" /\ AllIdle
    /\ schedules[1] # NoRow /\ schedules[1].days = Weekend
    /\ schedules[2] # NoRow /\ schedules[2].days = SatSunSat.days
    /\ \E j \in JobsWithId(jobs, JobId(1)) : \E k \in JobsWithId(jobs, JobId(2)) :
          j.trigger = k.trigger

\* C15: when schedule_job is done with a record whose enabled flag is
\* false, whether it returned or raised, no job has the id of the record.
C15_DisabledHasNoJob ==
    [][\A t \in Threads :
        (req[t].pc = "schedule_job" /\ req[t].schedule.enabled = 0
         /\ req'[t].pc # "schedule_job") =>
            JobCount(jobs', JobId(req[t].schedule.id)) = 0]_vars

\* C16: no step of execute_schedule, whatever it comes to, changes the
\* schedule store, the config store, the jobs and their triggers, or the
\* state of the scheduler.
C16_ExecuteFrame ==
    [][\A w \in Workers :
        wrk'[w] # wrk[w] =>
            UNCHANGED <<schedules, seq, config, jobs, pending, state, main>>]_vars

\* C16 witness: decoding the color has raised out of execute_schedule; the
\* record, its job and the running scheduler are as they were.
C16_Witness ==
    /\ wrk["w1"].pc = "raised"
    /\ wrk["w1"].sid = 1
    /\ schedules[1] = wrk["w1"].row
    /\ JobsWithId(jobs, JobId(1)) = {Job(1, StoredTrigger(1))}
    /\ state = "running"

\* The defaults the claim lists, and the record a body stands for.
ClaimDefaults ==
    [days |-> <<"0", ",", "1", ",", "2", ",", "3", ",", "4", ",", "5", ",", "6">>,
     action |-> "on", relay |-> 1, strip |-> 1, brightness |-> 255,
     color |-> <<"#", "f", "f", "f", "f", "f", "f">>, enabled |-> 1]

Defaulted(sid, data) ==
    [f \in {"id", "time"} \cup DOMAIN ClaimDefaults |->
        IF f = "id" THEN sid
        ELSE IF f \in DOMAIN data THEN data[f]
        ELSE ClaimDefaults[f]]

\* C17: the UPDATE of an update request stores, for an existing schedule,
\* the fields of the body and the default of every field the body omits,
\* whatever the row held; and when an update whose body omits enabled has
\* returned, the stored schedule is enabled and has its job.
C17_UpdateFullReplace ==
    [][\A t \in Threads :
        /\ (req[t].pc = "idle" /\ req'[t].pc = "select" /\ resp'[t].op = "update"
             /\ schedules[req'[t].sid] # NoRow) =>
               schedules'[req'[t].sid] = Defaulted(req'[t].sid, resp'[t].data)
        /\ (resp[t].op = "update" /\ ~resp[t].done /\ resp'[t].done
             /\ resp'[t].raised = "" /\ "enabled" \notin DOMAIN resp[t].data) =>
               /\ schedules'[resp[t].sid].enabled = 1
               /\ JobCount(jobs', JobId(resp[t].sid)) = 1]_vars

\* C17 witness: an update whose body omits enabled has stored enabled = 1
\* for a schedule that an earlier update had disabled and that has no job,
\* and is about to reconcile it.
C17_Witness ==
    /\ main = "serving"
    /\ req["t1"].pc = "schedule_job"
    /\ resp["t1"].op = "update" /\ resp["t1"].sid = 1
    /\ "enabled" \notin DOMAIN resp["t1"].data
    /\ was[1] # NoTrigger
    /\ JobCount(jobs, JobId(1)) = 0
    /\ schedules[1].enabled = 1

\* A worker enters execute_schedule in the step.
Starts(w) == wrk[w].pc # "select" /\ wrk'[w].pc = "select"

\* C18: a job is only ever started by a running scheduler that has not
\* been shut down; from the call of scheduler.shutdown() until the process
\* has ended no execute_schedule is started, whatever jobs are registered,
\* and the steps of the shutdown start none themselves.
C18_NoFireAfterShutdown ==
    [][\A w \in Workers :
        /\ Starts(w) => main = "serving" /\ state = "running"
        /\ main \in {"shutdown", "exited"} => ~Starts(w)
        /\ main' \in {"shutdown", "exited"} => ~Starts(w)]_vars

\* C18 witness: shutdown has been called while the job of the enabled
\* schedule 1 is registered and no instance of it is running; the job is
\* not started.
C18_Witness ==
    /\ main = "shutdown"
    /\ state = "stopped"
    /\ Enabled(1)
    /\ JobCount(jobs, JobId(1)) = 1
    /\ Free("w1")

\* No call of the worker met a transport error.
NoTransportError(w) ==
    \A i \in 1..Len(wrk[w].calls) : wrk[w].calls[i].outcome = "2xx"

\* C19: when the executes of two schedules with the same desired relay
\* state have both returned and none of their calls met a transport
\* error, the relay is in the desired state.
C19_ConcurrentRelay ==
    (/\ \A w \in Workers : wrk[w].pc = "returned" /\ NoTransportError(w)
     /\ wrk["w1"].sid # wrk["w2"].sid
     /\ wrk["w1"].row.relay # 0 /\ wrk["w2"].row.relay # 0
     /\ DesiredState(wrk["w1"].row) = DesiredState(wrk["w2"].row)) =>
        relay = DesiredState(wrk["w1"].row)

\* C20: the id a create gives to its row is larger than every id assigned
\* before, those of deleted rows included, and no stored row carries an id
\* that was not assigned.
C20_IdNeverReassigned ==
    [][\A i \in Ids :
        /\ (schedules[i] = NoRow /\ schedules'[i] # NoRow) => i > seq /\ seq' = i
        /\ schedules'[i] # NoRow => schedules'[i].id = i /\ i <= seq']_vars

\* C20 witness: a create after the delete of the only row got a new id.
C20_Witness ==
    /\ seq = 2 /\ schedules[1] = NoRow /\ schedules[2] # NoRow
    /\ resp["t1"].op = "create" /\ resp["t1"].sid = 2

====
